---- MODULE Spec2Model ----
(***************************************************************************)
(* The no-repeated-member-access rule of the AssemblyScript ESLint plugin. *)
(*                                                                         *)
(* Spec models the map-based rule of src/plugins/rules/memberAccess.ts     *)
(* (lines 537-863): per-scope chain records, the mutation tracker and the  *)
(* chain selector, driven by ESLint's pre-order traversal of one           *)
(* expression statement after the other.  SpecReads is the same rule on a  *)
(* file that only reads.  SpecPerf models the rule of                      *)
(* src/plugins/perf-plugin.ts (lines 121-402) with its fix: a file is      *)
(* linted, the fix of one diagnostic is applied, the file is linted again, *)
(* round after round; SpecCases is the same on a file whose statements are *)
(* the consequents of the cases of a switch statement.  SpecConcat models  *)
(* the no-concat-string rule of src/plugins/rules/noConcatString.ts: the   *)
(* loop depth over a traversal.                                            *)
(***************************************************************************)
EXTENDS Integers, Sequences, FiniteSets, TLC

\* ------------------------------------------------------------------------
\* Bounds of the model
\* ------------------------------------------------------------------------
\* Number of expression statements of the linted file.
MaxStmts == 3
\* Lexical scopes of the linted file (sourceCode.getScope results).
Scopes == {"s1", "s2"}
\* The values of the minOccurrences option the model runs with.
MinOccurrencesValues == {2, 3}

\* ------------------------------------------------------------------------
\* The syntax tree of an expression
\* ------------------------------------------------------------------------
\* An expression is a root and a path of links.  Link k is the AST node that
\* has the expression made of links 1..k-1 as its object (or callee):
\*   dot  : MemberExpression, computed = false, property = name   (x.name)
\*   lit  : MemberExpression, computed = true, literal key        (x[0])
\*   dyn  : MemberExpression, computed = true, non-literal key    (x[k])
\*   call : CallExpression,   callee = object                     (x())
\* bang = TRUE wraps the object in a TSNonNullExpression          (x!.name)
\* Roots: the identifier a, the self-reference, a call result f().
Link(kind, name, bang) == [kind |-> kind, name |-> name, bang |-> bang]

Dot(name) == Link("dot", name, FALSE)

Bang(name) == Link("dot", name, TRUE)

Lit == Link("lit", "[0]", FALSE)

Dyn == Link("dyn", "[k]", FALSE)

Call == Link("call", "()", FALSE)

BangCall == Link("call", "()", TRUE)

BangLit == Link("lit", "[0]", TRUE)

\* The access paths of the linted file, all rooted at the identifier a:
\*   a  a.b  a.b.b  a.b.c                  plain chains
\*   a!.b  a.b!.c                          with a non-null assertion
\*   a[0]  a[k]  a.b[0]  a.b![0]  a[0].b   with a bracket access
\*   a()  a.b()  a().b  a.b().c  a.b!().c  with a call
ReadPaths ==
    {<<>>, <<Dot("b")>>, <<Dot("b"), Dot("b")>>, <<Dot("b"), Dot("c")>>,
     <<Bang("b")>>, <<Dot("b"), Bang("c")>>,
     <<Lit>>, <<Dyn>>, <<Dot("b"), Lit>>, <<Dot("b"), BangLit>>, <<Lit, Dot("b")>>,
     <<Call>>, <<Dot("b"), Call>>, <<Call, Dot("b")>>, <<Dot("b"), Call, Dot("c")>>,
     <<Dot("b"), BangCall, Dot("c")>>}

\* and the expressions: these paths on a; this.b; f().b
Exprs ==
    {[root |-> "a", links |-> p] : p \in ReadPaths}
        \cup {[root |-> r, links |-> <<Dot("b")>>] : r \in {"this", "f()"}}

\* The identifiers of the file that an import declaration binds
\* (import { j } from "m"); a is a parameter or a let variable.
ImportBindings == {"j"}

\* node.type of the expression made of the root and the links 1..k
NodeType(e, k) ==
    IF k = 0
    THEN CASE e.root = "this" -> "ThisExpression"
           [] e.root = "f()" -> "CallExpression"
           [] OTHER -> "Identifier"
    ELSE IF e.links[k].kind = "call" THEN "CallExpression"
         ELSE "MemberExpression"

\* node.parent.type of that node, inside the expression e.  The parent of
\* the whole expression is the statement that holds it.
ParentType(e, k, top) ==
    IF k = Len(e.links) THEN top
    ELSE IF e.links[k + 1].bang THEN "TSNonNullExpression"
         ELSE IF e.links[k + 1].kind = "call" THEN "CallExpression"
              ELSE "MemberExpression"

\* A chain is the sequence of its segments: <<"a", "b", "c">> is "a.b.c".
\* No segment holds a dot or a bracket, so that
\*   x.startsWith(y + ".")  is  IsStrictPrefix(y, x)
\*   x.includes(".")        is  Len(x) > 1
IsStrictPrefix(y, x) == Len(y) < Len(x) /\ SubSeq(x, 1, Len(y)) = y

\* chain.length, the length of the chain's text (segments of one character
\* joined by dots; "this" has four).
RECURSIVE StrLen(_)
StrLen(chain) ==
    IF chain = <<>> THEN 0
    ELSE (IF Head(chain) = "this" THEN 4 ELSE 1)
            + (IF Len(chain) > 1 THEN 1 ELSE 0) + StrLen(Tail(chain))

\* ------------------------------------------------------------------------
\* analyzeChain
\* ------------------------------------------------------------------------
\* A variant of the loop below that keeps a literal index as a segment of
\* the chain, the way getObjectChain of perf-plugin.ts does.
RECURSIVE CollectPartsIndexed(_, _, _)
CollectPartsIndexed(e, k, parts) ==
    IF NodeType(e, k) = "MemberExpression"
    THEN IF e.links[k].kind = "dyn"
         THEN [valid |-> FALSE, parts |-> parts, at |-> k]
         ELSE CollectPartsIndexed(e, k - 1, Append(parts, e.links[k].name))
    ELSE [valid |-> TRUE, parts |-> parts, at |-> k]

\* The while loop of analyzeChain on the node (e, k): parts collected so far
\* (reverse order), from the node (e, k) inward.  Result: [valid, parts, at],
\* at = the node the loop stopped on.
RECURSIVE CollectParts(_, _, _)
CollectParts(e, k, parts) ==
    IF NodeType(e, k) = "MemberExpression"
    THEN IF e.links[k].kind # "dot"
         THEN [valid |-> FALSE, parts |-> parts, at |-> k]
         ELSE CollectParts(e, k - 1, Append(parts, e.links[k].name))
    ELSE [valid |-> TRUE, parts |-> parts, at |-> k]

Reverse(s) == [i \in 1..Len(s) |-> s[Len(s) + 1 - i]]

\* analyzeChain(node): the hierarchy of the chain (fullChain is its last
\* element), or <<>> for null.
analyzeChain(e, k) ==
    LET loop == CollectParts(e, k, <<>>)
        base == NodeType(e, loop.at)
        parts ==
            IF base \in {"Identifier", "ThisExpression"}
            THEN Append(loop.parts, e.root)
            ELSE loop.parts
        isValid == loop.valid /\ base \in {"Identifier", "ThisExpression"}
    IN  IF ~isValid \/ Len(parts) < 2 THEN <<>>
        ELSE LET fwd == Reverse(parts)
             IN  [i \in 1..Len(fwd) |-> SubSeq(fwd, 1, i)]

\* ------------------------------------------------------------------------
\* State
\* ------------------------------------------------------------------------
VARIABLES
    options,         \* context.options: the options of the rule's configuration
    minOccurrences,  \* the threshold the rule computed from them in create()
    scopeDataMap,    \* scope -> (chain -> [count, nodes, modified])
    reportedChains,  \* chains already reported
    diags,           \* the context.report calls, in order
    stmts,           \* number of statements traversed so far
    hist,            \* what the source held so far (observation only)
    source,          \* perf-plugin.ts: the statements of the linted file
    occurrences,     \* perf-plugin.ts: key -> count
    chainNodesMap,   \* perf-plugin.ts: key -> nodes
    reports,         \* perf-plugin.ts: the context.report calls of the run
    pass,            \* perf-plugin.ts: "edit", "linted", "fixed", "relinted"
    fixed,           \* perf-plugin.ts: the key of the diagnostic fixed
    loopDepth,       \* noConcatString.ts: the loop nesting level
    concatReports,   \* noConcatString.ts: the context.report calls, in order
    loopStack,       \* the loops around the traversal's position, innermost first
    visited,         \* number of nodes the traversal has entered
    loopHist,        \* what the traversal met so far (observation only)
    chainTree,       \* tree-based rule: path -> [count, modified] of a ChainTree
    treeOps          \* tree-based rule: number of operations on the tree so far

memberAccessVars ==
    <<scopeDataMap, reportedChains, diags, stmts, hist>>

perfVars == <<source, occurrences, chainNodesMap, reports, pass, fixed>>

concatVars == <<loopDepth, concatReports, loopStack, visited, loopHist>>

treeVars == <<chainTree, treeOps>>

vars == <<options, minOccurrences, memberAccessVars, perfVars, concatVars, treeVars>>

\* The rule's own state, as the listeners read and write it.
RuleState == [map |-> scopeDataMap, reported |-> reportedChains, out |-> diags]

NoChains == [c \in {} |-> 0]

\* getScopeData(scope): the map with the scope's data created if missing
getScopeData(map, scope) ==
    IF scope \in DOMAIN map THEN map
    ELSE [s \in DOMAIN map \cup {scope} |->
              IF s = scope THEN NoChains ELSE map[s]]

\* ------------------------------------------------------------------------
\* The options
\* ------------------------------------------------------------------------
defaultOptions == <<[minOccurrences |-> 2]>>

\* context.options of a configuration: empty when the rule is enabled
\* without options, else one object with minOccurrences.  The model runs
\* with no options and with each value that differs from the default.
OptionsValues ==
    {<<>>} \cup {<<[minOccurrences |-> n]>> :
                    n \in MinOccurrencesValues \ {defaultOptions[1].minOccurrences}}

\* create(context, [options]): the rule creator hands create the configured
\* options, or defaultOptions when none are configured;
\* minOccurrences = options?.minOccurrences ?? 2
create(opts) ==
    LET applied == IF opts = <<>> THEN defaultOptions ELSE opts
    IN  applied[1].minOccurrences

\* ------------------------------------------------------------------------
\* trackModification
\* ------------------------------------------------------------------------
\* trackModification marking the chain in the table of every scope that has
\* one, not only in the table of the scope of the node
trackModificationEveryScope(st, chain, scope) ==
    LET map == getScopeData(st.map, scope)
        Marked(chains) ==
            [c \in DOMAIN chains \cup {chain} |->
                IF c = chain
                THEN IF c \in DOMAIN chains
                     THEN [chains[c] EXCEPT !.modified = TRUE]
                     ELSE [count |-> 0, nodes |-> <<>>, modified |-> TRUE]
                ELSE IF IsStrictPrefix(chain, c)
                     THEN [chains[c] EXCEPT !.modified = TRUE]
                     ELSE chains[c]]
    IN  [st EXCEPT !.map = [s \in DOMAIN map |-> Marked(map[s])]]

\* trackModification that also sets the count of the records it marks back
\* to 0
trackModificationResetting(st, chain, scope) ==
    LET map == getScopeData(st.map, scope)
        chains == map[scope]
        after ==
            [c \in DOMAIN chains \cup {chain} |->
                IF c \in DOMAIN chains
                THEN IF c = chain \/ IsStrictPrefix(chain, c)
                     THEN [chains[c] EXCEPT !.modified = TRUE, !.count = 0]
                     ELSE chains[c]
                ELSE [count |-> 0, nodes |-> <<>>, modified |-> TRUE]]
    IN  [st EXCEPT !.map = [map EXCEPT ![scope] = after]]

\* Every segment of a chain is a name, so existingChain.startsWith(chain + "[")
\* never holds and is the FALSE disjunct below.
trackModification(st, chain, scope) ==
    LET map == getScopeData(st.map, scope)
        chains == map[scope]
        marked ==
            [c \in DOMAIN chains |->
                IF c = chain \/ IsStrictPrefix(chain, c) \/ FALSE
                THEN [chains[c] EXCEPT !.modified = TRUE]
                ELSE chains[c]]
        after ==
            IF chain \in DOMAIN marked
            THEN [marked EXCEPT ![chain].modified = TRUE]
            ELSE [c \in DOMAIN marked \cup {chain} |->
                     IF c = chain
                     THEN [count |-> 0, nodes |-> <<>>, modified |-> TRUE]
                     ELSE marked[c]]
    IN  [st EXCEPT !.map = [map EXCEPT ![scope] = after]]

\* for (const chain of chainInfo.hierarchy) trackModification(chain, node)
RECURSIVE TrackAll(_, _, _, _)
TrackAll(st, hierarchy, i, scope) ==
    IF i > Len(hierarchy) THEN st
    ELSE TrackAll(trackModification(st, hierarchy[i], scope), hierarchy, i + 1, scope)

\* The AssignmentExpression and UpdateExpression listeners, on the target
\* (node.left, node.argument) e; the CallExpression listener, on the callee
\* (e, k).  A target wrapped in a non-null assertion is no MemberExpression.
OnMutation(st, scope, e, k, wrapped) ==
    IF ~wrapped /\ NodeType(e, k) = "MemberExpression"
    THEN LET chainInfo == analyzeChain(e, k)
         IN  IF chainInfo # <<>> THEN TrackAll(st, chainInfo, 1, scope) ELSE st
    ELSE st

AssignmentExpression(st, scope, e) == OnMutation(st, scope, e, Len(e.links), FALSE)

UpdateExpression(st, scope, e) == OnMutation(st, scope, e, Len(e.links), FALSE)

CallExpression(st, scope, e, k) == OnMutation(st, scope, e, k - 1, e.links[k].bang)

\* ------------------------------------------------------------------------
\* processMemberExpression
\* ------------------------------------------------------------------------
HasBracket(chain) == \E i \in DOMAIN chain : chain[i] \in {"[0]", "[k]"}

\* The loop with a modified record replaced by a fresh one instead of
\* skipped
RECURSIVE UpdateStatisticsRestart(_, _, _, _, _)
UpdateStatisticsRestart(acc, hierarchy, i, node, min) ==
    IF i > Len(hierarchy) THEN acc
    ELSE LET chain == hierarchy[i]
             record ==
                 IF chain \in DOMAIN acc.chains /\ ~acc.chains[chain].modified
                 THEN acc.chains[chain]
                 ELSE [count |-> 0, nodes |-> <<>>, modified |-> FALSE]
             counted ==
                 [count |-> record.count + 1,
                  nodes |-> Append(record.nodes, node),
                  modified |-> record.modified]
             skip == Len(chain) <= 1 \/ HasBracket(chain)
             next ==
                 IF skip THEN acc
                 ELSE [chains |->
                          [c \in DOMAIN acc.chains \cup {chain} |->
                              IF c = chain THEN counted ELSE acc.chains[c]],
                       longest |->
                          IF counted.count >= min
                                /\ StrLen(chain) > StrLen(acc.longest)
                          THEN chain ELSE acc.longest]
         IN  UpdateStatisticsRestart(next, hierarchy, i + 1, node, min)

\* The loop without the test of record.modified
RECURSIVE UpdateStatisticsCounting(_, _, _, _, _)
UpdateStatisticsCounting(acc, hierarchy, i, node, min) ==
    IF i > Len(hierarchy) THEN acc
    ELSE LET chain == hierarchy[i]
             record ==
                 IF chain \in DOMAIN acc.chains THEN acc.chains[chain]
                 ELSE [count |-> 0, nodes |-> <<>>, modified |-> FALSE]
             counted ==
                 [count |-> record.count + 1,
                  nodes |-> Append(record.nodes, node),
                  modified |-> record.modified]
             skip == Len(chain) <= 1 \/ HasBracket(chain)
             next ==
                 IF skip THEN acc
                 ELSE [chains |->
                          [c \in DOMAIN acc.chains \cup {chain} |->
                              IF c = chain THEN counted ELSE acc.chains[c]],
                       longest |->
                          IF counted.count >= min
                                /\ StrLen(chain) > StrLen(acc.longest)
                          THEN chain ELSE acc.longest]
         IN  UpdateStatisticsCounting(next, hierarchy, i + 1, node, min)

\* The loop over chainInfo.hierarchy: acc = [chains, longest]
RECURSIVE UpdateStatistics(_, _, _, _, _)
UpdateStatistics(acc, hierarchy, i, node, min) ==
    IF i > Len(hierarchy) THEN acc
    ELSE LET chain == hierarchy[i]
             record ==
                 IF chain \in DOMAIN acc.chains THEN acc.chains[chain]
                 ELSE [count |-> 0, nodes |-> <<>>, modified |-> FALSE]
             counted ==
                 [count |-> record.count + 1,
                  nodes |-> Append(record.nodes, node),
                  modified |-> record.modified]
             skip == Len(chain) <= 1 \/ HasBracket(chain) \/ record.modified
             next ==
                 IF skip THEN acc
                 ELSE [chains |->
                          [c \in DOMAIN acc.chains \cup {chain} |->
                              IF c = chain THEN counted ELSE acc.chains[c]],
                       longest |->
                          IF counted.count >= min
                                /\ StrLen(chain) > StrLen(acc.longest)
                          THEN chain ELSE acc.longest]
         IN  UpdateStatistics(next, hierarchy, i + 1, node, min)

\* Whether the chain selected by the occurrence is reported.
ShouldReport(longestValidChain, reported, scope) ==
    longestValidChain # <<>> /\ longestValidChain \notin reported

\* processMemberExpression with the scope data fetched before the chain is
\* analyzed
processMemberExpressionScopeFirst(st, scope, e, k, parent, id, min) ==
    IF parent = "MemberExpression" THEN st
    ELSE LET chainInfo == analyzeChain(e, k)
             map == getScopeData(st.map, scope)
         IN  IF chainInfo = <<>> THEN [st EXCEPT !.map = map]
             ELSE LET node == <<id, k>>
                      acc == UpdateStatistics(
                                 [chains |-> map[scope], longest |-> <<>>],
                                 chainInfo, 1, node, min)
                      st1 == [st EXCEPT !.map = [map EXCEPT ![scope] = acc.chains]]
                  IN  IF ShouldReport(acc.longest, st.reported, scope)
                      THEN [st1 EXCEPT
                               !.out = Append(@,
                                   [scope |-> scope, chain |-> acc.longest,
                                    count |-> acc.chains[acc.longest].count,
                                    node |-> acc.chains[acc.longest].nodes[1],
                                    at |-> id]),
                               !.reported = @ \cup {acc.longest}]
                      ELSE st1

\* processMemberExpression(node) for the node (e, k) of statement number id;
\* parent is node.parent.type.
processMemberExpression(st, scope, e, k, parent, id, min) ==
    IF parent = "MemberExpression" THEN st
    ELSE LET chainInfo == analyzeChain(e, k)
         IN  IF chainInfo = <<>> THEN st
             ELSE LET map == getScopeData(st.map, scope)
                      node == <<id, k>>
                      acc == UpdateStatistics(
                                 [chains |-> map[scope], longest |-> <<>>],
                                 chainInfo, 1, node, min)
                      st1 == [st EXCEPT !.map = [map EXCEPT ![scope] = acc.chains]]
                  IN  IF ShouldReport(acc.longest, st.reported, scope)
                      THEN [st1 EXCEPT
                               !.out = Append(@,
                                   [scope |-> scope, chain |-> acc.longest,
                                    count |-> acc.chains[acc.longest].count,
                                    node |-> acc.chains[acc.longest].nodes[1],
                                    at |-> id]),
                               !.reported = @ \cup {acc.longest}]
                      ELSE st1

\* ------------------------------------------------------------------------
\* The traversal of one statement
\* ------------------------------------------------------------------------
\* ESLint enters the nodes of the expression in pre-order, the outermost
\* first: node (e, k) before its object (e, k - 1).
RECURSIVE Walk(_, _, _, _, _, _, _)
Walk(st, scope, e, k, top, id, min) ==
    IF k = 0 THEN st
    ELSE LET st1 ==
                 IF e.links[k].kind = "call"
                 THEN CallExpression(st, scope, e, k)
                 ELSE processMemberExpression(
                          st, scope, e, k, ParentType(e, k, top), id, min)
         IN  Walk(st1, scope, e, k - 1, top, id, min)

\* The rule's state after the statement: the statement's own listener, if
\* it has one, then the listeners of the nodes of its expression.
AfterStatement(st, kind, scope, e, id, min) ==
    LET st1 ==
            CASE kind = "assign" -> AssignmentExpression(st, scope, e)
              [] kind = "update" -> UpdateExpression(st, scope, e)
              [] OTHER -> st
        top ==
            CASE kind = "assign" -> "AssignmentExpression"
              [] kind = "update" -> "UpdateExpression"
              [] OTHER -> "ExpressionStatement"
    IN  Walk(st1, scope, e, Len(e.links), top, id, min)

\* ------------------------------------------------------------------------
\* The tree-based rule (src/plugins/rules/memberAccess.ts, lines 1-254)
\* ------------------------------------------------------------------------
\* A ChainTree is a function from paths to nodes [count, modified]; the path
\* of a node is the sequence of child names from the root, <<>> for the root
\* itself, and the parent of the node at path p is the node at Front(p).
Front(p) == SubSeq(p, 1, Len(p) - 1)

\* new ChainNode(parent) without the inheritance of the parent's flag
ChainNodeUnmodified(tree, path) == [count |-> 0, modified |-> FALSE]

\* new ChainNode(parent) for the node at the given path of the tree; the
\* root is made without a parent.
\*   this.modified = this.parent?.modified || false
ChainNode(tree, path) ==
    [count |-> 0,
     modified |-> IF path = <<>> THEN FALSE ELSE tree[Front(path)].modified]

\* node.getOrCreateChild(childName) for the node at path p
getOrCreateChild(tree, p, childName) ==
    LET child == Append(p, childName)
    IN  IF child \in DOMAIN tree THEN tree
        ELSE [q \in DOMAIN tree \cup {child} |->
                 IF q = child THEN ChainNode(tree, child) ELSE tree[q]]

\* incrementCount of the node at path p
incrementCount(tree, p) == [tree EXCEPT ![p].count = @ + 1]

\* markAsModified of the node at path p: the node and all its descendants
markAsModified(tree, p) ==
    [q \in DOMAIN tree |->
        IF q = p \/ IsStrictPrefix(p, q)
        THEN [tree[q] EXCEPT !.modified = TRUE] ELSE tree[q]]

\* visitChainPath(properties, process), from the i-th property on; count
\* tells whether process is incrementCount or nothing.
RECURSIVE visitChainPath(_, _, _, _)
visitChainPath(tree, properties, i, count) ==
    IF i > Len(properties) THEN tree
    ELSE LET current == SubSeq(properties, 1, i)
             made == getOrCreateChild(tree, Front(current), properties[i])
         IN  visitChainPath(IF count THEN incrementCount(made, current) ELSE made,
                            properties, i + 1, count)

insertChain(tree, properties) == visitChainPath(tree, properties, 1, TRUE)

markChainAsModified(tree, properties) ==
    markAsModified(visitChainPath(tree, properties, 1, FALSE), properties)

\* getChildren of the node at path p
getChildren(tree, p) == {q \in DOMAIN tree : Len(q) = Len(p) + 1 /\ Front(q) = p}

\* dfs(node, pathArray) of findValidChains: the chains it pushes
RECURSIVE dfs(_, _)
dfs(tree, p) ==
    (IF Len(p) > 1 /\ ~tree[p].modified /\ tree[p].count >= 2 THEN {p} ELSE {})
        \cup (IF tree[p].modified THEN {}
              ELSE UNION {dfs(tree, q) : q \in getChildren(tree, p)})

\* findValidChains(): the chains returned, as a set
findValidChains(tree) == dfs(tree, <<>>)

\* analyzeChain of the tree-based rule: the property names of the node
\* (e, k), from the root or from the first computed access or call on.
analyzeChainTree(e, k) ==
    LET loop == CollectParts(e, k, <<>>)
        base == NodeType(e, loop.at)
    IN  Reverse(IF base \in {"Identifier", "ThisExpression"}
                THEN Append(loop.parts, e.root)
                ELSE loop.parts)

\* Number of operations on the tree
MaxTreeOps == 4

\* The expressions whose chains the operations get:
\*   a.b  a.b.c  this.b  a.b[0]  a[0].b
TreeExprs ==
    {[root |-> "a", links |-> p] :
        p \in {<<Dot("b")>>, <<Dot("b"), Dot("c")>>, <<Dot("b"), Lit>>, <<Lit, Dot("b")>>}}
    \cup {[root |-> "this", links |-> <<Dot("b")>>]}

\* processMemberExpression: chainTree.insertChain(analyzeChain(node))
InsertChain ==
    \E e \in TreeExprs :
        /\ treeOps < MaxTreeOps
        /\ chainTree' = insertChain(chainTree, analyzeChainTree(e, Len(e.links)))
        /\ treeOps' = treeOps + 1
        /\ UNCHANGED <<options, minOccurrences, memberAccessVars, perfVars, concatVars>>

\* setModifiedFlag: chainTree.markChainAsModified(analyzeChain(target))
MarkChainAsModified ==
    \E e \in TreeExprs :
        /\ treeOps < MaxTreeOps
        /\ chainTree' = markChainAsModified(chainTree, analyzeChainTree(e, Len(e.links)))
        /\ treeOps' = treeOps + 1
        /\ UNCHANGED <<options, minOccurrences, memberAccessVars, perfVars, concatVars>>

NextTree == InsertChain \/ MarkChainAsModified

\* ------------------------------------------------------------------------
\* What the source held (observation of the input, no part of the rule)
\* ------------------------------------------------------------------------
\* The chain an expression spells: root and names, non-null assertions
\* dropped; <<>> if the root is no identifier or self-reference, or a link
\* of the path is computed or a call.
SourceChain(e, k) ==
    IF e.root \in {"a", "this", "j"} /\ \A i \in 1..k : e.links[i].kind = "dot"
    THEN <<e.root>> \o [i \in 1..k |-> e.links[i].name]
    ELSE <<>>

IsPrefix(y, x) == y = x \/ IsStrictPrefix(y, x)

\* The chains a statement writes to: the target of an assignment or an
\* update; the callee and the receiver of every member call (x.m()) of the
\* expression.
CallLinks(e) == {k \in DOMAIN e.links : e.links[k].kind = "call"}

Receivers(e) ==
    {SourceChain(e, k - 2) : k \in {j \in CallLinks(e) : j >= 2}} \ {<<>>}

Callees(e) ==
    {SourceChain(e, k - 1) : k \in {j \in CallLinks(e) : j >= 2}} \ {<<>>}

Targets(kind, e) ==
    ((IF kind \in {"assign", "update"} THEN {SourceChain(e, Len(e.links))} ELSE {})
        \cup Callees(e) \cup Receivers(e)) \ {<<>>}

\* The chains of the scope that have a recorded occurrence and are, or
\* extend, one of the chains tg.
Recorded(scope, tg) ==
    {p \in (IF scope \in DOMAIN scopeDataMap
            THEN DOMAIN scopeDataMap[scope] ELSE {}) :
        /\ scopeDataMap[scope][p].count >= 1
        /\ \E t \in tg : IsPrefix(t, p)}

\* What the statements of a file with writes and calls held:
\* covered:  per scope, the chains that had a recorded occurrence when they,
\*           or a chain they extend, were written to
\* called:   per scope, the receivers of the calls
\* brackets: every statement so far held a bracket access
\* through:  every statement so far passed through a call result
HasKind(e, kinds) == \E i \in DOMAIN e.links : e.links[i].kind \in kinds

ThroughCall(e) ==
    \E i \in DOMAIN e.links : e.links[i].kind = "call" /\ i < Len(e.links)

Observe(h, kind, scope, e) ==
    LET tg == Targets(kind, e)
        rc == Receivers(e)
    IN  [h EXCEPT
            !.covered =
                IF tg = {} THEN @ ELSE [@ EXCEPT ![scope] = @ \cup Recorded(scope, tg)],
            !.called =
                IF rc = {} THEN @ ELSE [@ EXCEPT ![scope] = @ \cup rc],
            !.brackets = @ /\ HasKind(e, {"lit", "dyn"}),
            !.through = @ /\ ThroughCall(e)]

\* What the statements of a file of reads held:
\* exact: per scope, how many expressions spell exactly the chain
ObserveRead(h, scope, e) ==
    LET whole == SourceChain(e, Len(e.links))
    IN  IF whole = <<>> \/ Len(whole) < 2 THEN h
        ELSE [h EXCEPT !.exact[scope] =
                 [c \in DOMAIN @ \cup {whole} |->
                     IF c = whole
                     THEN (IF c \in DOMAIN @ THEN @[c] ELSE 0) + 1
                     ELSE @[c]]]

\* Number of expressions of the scope that spell the chain or an extension
\* of it.
Accesses(h, scope, chain) ==
    LET ex == h.exact[scope]
        ext == {c \in DOMAIN ex : IsPrefix(chain, c)}
        RECURSIVE Sum(_)
        Sum(S) == IF S = {} THEN 0
                  ELSE LET c == CHOOSE x \in S : TRUE IN ex[c] + Sum(S \ {c})
    IN  Sum(ext)

\* ------------------------------------------------------------------------
\* Specification
\* ------------------------------------------------------------------------
\* Expressions that can stand left of "=" or under "++".
TargetExprs ==
    {e \in Exprs :
        /\ e.root = "a"
        /\ Len(e.links) > 0 => e.links[Len(e.links)].kind \in {"dot", "lit"}
        /\ \A i \in DOMAIN e.links : e.links[i].kind # "call"}

Init ==
    /\ options \in OptionsValues
    /\ minOccurrences = create(options)
    /\ scopeDataMap = [s \in {} |-> NoChains]
    /\ reportedChains = {}
    /\ diags = <<>>
    /\ stmts = 0
    /\ hist = [exact |-> [s \in Scopes |-> NoChains],
               covered |-> [s \in Scopes |-> {}],
               called |-> [s \in Scopes |-> {}],
               brackets |-> TRUE, through |-> TRUE]
    /\ source = <<>>
    /\ occurrences = <<>>
    /\ chainNodesMap = <<>>
    /\ reports = <<>>
    /\ pass = "edit"
    /\ fixed = <<>>
    /\ loopDepth = 0
    /\ concatReports = <<>>
    /\ loopStack = <<>>
    /\ visited = 0
    /\ loopHist = [left |-> FALSE, outside |-> 0]
    /\ chainTree = (<<>> :> ChainNode(<<>>, <<>>))
    /\ treeOps = 0

\* The scope of the file's first statement is called s1.
Traverse(kind, scope, e) ==
    /\ stmts < MaxStmts
    /\ stmts = 0 => scope = "s1"
    /\ LET st == AfterStatement(RuleState, kind, scope, e, stmts + 1, minOccurrences)
       IN  /\ scopeDataMap' = st.map
           /\ reportedChains' = st.reported
           /\ diags' = st.out
    /\ stmts' = stmts + 1
    /\ hist' = Observe(hist, kind, scope, e)
    /\ UNCHANGED <<treeVars, options, minOccurrences, perfVars, concatVars>>

\* An expression that is read: MemberExpression and CallExpression listeners
VisitExpression == \E scope \in Scopes, e \in Exprs : Traverse("read", scope, e)

\* target = value: AssignmentExpression listener, then those of the target
VisitAssignment == \E scope \in Scopes, e \in TargetExprs : Traverse("assign", scope, e)

\* target++: UpdateExpression listener, then those of the target
VisitUpdate == \E scope \in Scopes, e \in TargetExprs : Traverse("update", scope, e)

Next == VisitExpression \/ VisitAssignment \/ VisitUpdate

Spec == Init /\ [][Next]_vars

\* The tree-based rule: any sequence of operations on the tree of one scope
SpecTree == Init /\ [][NextTree]_vars

\* ------------------------------------------------------------------------
\* Specification of a file that only reads
\* ------------------------------------------------------------------------
\* Number of expression statements of such a file.
MaxReads == 4

\* Its expressions: a.b  a.b.b  a.b.c  a.b!.c, and j.b.c on the import j
ReadExprs ==
    {[root |-> "a", links |-> p] :
        p \in {<<Dot("b")>>, <<Dot("b"), Dot("b")>>, <<Dot("b"), Dot("c")>>,
               <<Dot("b"), Bang("c")>>}}
    \cup {[root |-> r, links |-> <<Dot("b"), Dot("c")>>] : r \in ImportBindings}

ReadChain ==
    \E scope \in Scopes, e \in ReadExprs :
        /\ stmts < MaxReads
        /\ stmts = 0 => scope = "s1"
        /\ LET st == AfterStatement(RuleState, "read", scope, e, stmts + 1, minOccurrences)
           IN  /\ scopeDataMap' = st.map
               /\ reportedChains' = st.reported
               /\ diags' = st.out
        /\ stmts' = stmts + 1
        /\ hist' = ObserveRead(hist, scope, e)
        /\ UNCHANGED <<treeVars, options, minOccurrences, perfVars, concatVars>>

NextReads == ReadChain

SpecReads == Init /\ [][NextReads]_vars

\* ------------------------------------------------------------------------
\* src/plugins/perf-plugin.ts: the rule with the fix
\* ------------------------------------------------------------------------
\* Here a text is the sequence of its characters, and the root of an
\* expression is the text of an identifier.
\* Number of statements of the linted file, before a fix.
MaxPerfStmts == 3

\* Characters c with c = c.toUpperCase() that start an identifier here
UpperFirst == {"_", "A"}

IdChars == {"a", "b", "c", "k", "A", "0", "_", "t", "h", "i", "s"}

\* The text of the self-reference root
ThisText == <<"t", "h", "i", "s">>

LinkText(l) ==
    CASE l.kind = "dot" -> <<".", l.name>>
      [] l.kind = "lit" -> <<"[", "0", "]">>
      [] l.kind = "dyn" -> <<"[", "k", "]">>
      [] OTHER -> <<"(", ")">>

\* sourceCode.getText of the node made of the root and the links 1..k
RECURSIVE getText(_, _)
getText(e, k) ==
    IF k = 0 THEN e.root
    ELSE getText(e, k - 1) \o (IF e.links[k].bang THEN <<"!">> ELSE <<>>)
            \o LinkText(e.links[k])

\* sourceCode.getText(memberNode.object) for the member node (e, k)
ObjectText(e, k) ==
    getText(e, k - 1) \o (IF e.links[k].bang THEN <<"!">> ELSE <<>>)

\* path.join("")
RECURSIVE Join(_)
Join(path) == IF path = <<>> THEN <<>> ELSE Head(path) \o Join(Tail(path))

\* The while loop of getObjectChain with current = the member node (e, k)
\* and the path collected so far; <<>> is null.
RECURSIVE ObjectPath(_, _, _)
ObjectPath(e, k, path) ==
    IF e.links[k].kind = "dyn" THEN <<>>
    ELSE LET path1 == <<LinkText(e.links[k])>> \o path
         IN  IF k > 1
             THEN IF e.links[k - 1].kind = "call" THEN <<>>
                  ELSE ObjectPath(e, k - 1, path1)
             ELSE IF e.root = ThisText
                  THEN IF Len(path1) + 1 <= 2 THEN <<>>
                       ELSE Join(<<e.root>> \o SubSeq(path1, 1, Len(path1) - 1))
                  ELSE IF Head(e.root) \in UpperFirst THEN <<>>
                       ELSE Join(<<e.root>> \o SubSeq(path1, 1, Len(path1) - 1))

getObjectChain(e, k) == ObjectPath(e, k, <<>>)

\* The names the const declarations of the scope bind (scope.variables with
\* a const definition).
ConstNames(src, scope) ==
    {src[i].name : i \in {j \in DOMAIN src : src[j].kind = "decl" /\ src[j].scope = scope}}

Lookup(map, key, default) == IF key \in DOMAIN map THEN map[key] ELSE default

Put(map, key, value) ==
    [x \in DOMAIN map \cup {key} |-> IF x = key THEN value ELSE map[x]]

\* isImportVariable(findVariableInScopeChain(scope, baseObjectName)): the
\* import bindings are those of the module scope, found from every scope.
isImportVariable(root) == \E n \in ImportBindings : root = <<n>>

\* The MemberExpression listener on the node (e, k) of statement id
PerfMemberExpression(st, src, scope, e, k, parent, id, min) ==
    IF parent = "MemberExpression" THEN st
    ELSE LET objectChain == getObjectChain(e, k)
             key == <<scope, objectChain>>
             count == Lookup(st.occ, key, 0) + 1
         IN  IF \/ objectChain = <<>>
                \/ e.root \in ConstNames(src, scope)
                \/ isImportVariable(e.root)
             THEN st
             ELSE [nodes |-> Put(st.nodes, key,
                                 Append(Lookup(st.nodes, key, <<>>), <<id, k>>)),
                   occ |-> Put(st.occ, key, count),
                   out |-> IF count >= min
                           THEN Append(st.out,
                                    [scope |-> scope, chain |-> objectChain,
                                     count |-> count, node |-> <<id, k>>])
                           ELSE st.out]

\* The nodes of one statement in pre-order, the outermost first
RECURSIVE PerfWalk(_, _, _, _, _, _, _)
PerfWalk(st, src, scope, e, k, id, min) ==
    IF k = 0 THEN st
    ELSE LET st1 ==
                 IF e.links[k].kind = "call" THEN st
                 ELSE PerfMemberExpression(
                          st, src, scope, e, k,
                          ParentType(e, k, "Statement"), id, min)
         IN  PerfWalk(st1, src, scope, e, k - 1, id, min)

\* One run of the rule on the file, from scratch, up to statement n
RECURSIVE RunRule(_, _, _)
RunRule(src, n, min) ==
    IF n = 0 THEN [nodes |-> <<>>, occ |-> <<>>, out |-> <<>>]
    ELSE PerfWalk(RunRule(src, n - 1, min), src, src[n].scope, src[n].e,
                  Len(src[n].e.links), n, min)

\* `_${objectChain.replace(/[^a-zA-Z0-9_]/g, "_")}`
safeVarName(objectChain) ==
    <<"_">> \o [i \in 1..Len(objectChain) |->
                  IF objectChain[i] \in IdChars THEN objectChain[i] ELSE "_"]

Unwrapped(l) == [l EXCEPT !.bang = FALSE]

\* The fix without the comparison of the object text with the chain: every
\* recorded occurrence is rewritten.
FixEveryOccurrence(src, nodes, d, min) ==
    IF Len(nodes) < min THEN src
    ELSE LET name == safeVarName(d.chain)
             first == nodes[1]
             statement == first[1]
             scope == src[statement].scope
             variableExists == name \in ConstNames(src, scope)
             Hit(j) ==
                 {k \in DOMAIN src[j].e.links :
                     \E i \in DOMAIN nodes : nodes[i] = <<j, k>>}
             replaced ==
                 [j \in DOMAIN src |->
                     IF Hit(j) = {} THEN src[j]
                     ELSE LET k == CHOOSE x \in Hit(j) : TRUE
                          IN  [src[j] EXCEPT
                                  !.e = [root |-> name,
                                         links |-> SubSeq(@.links, k, Len(@.links))]]]
             from == src[statement].e
             declaration ==
                 [kind |-> "decl", scope |-> scope, list |-> src[statement].list,
                  name |-> name,
                  e |-> [root |-> from.root,
                         links |-> [i \in 1..(first[2] - 1) |-> Unwrapped(from.links[i])]]]
         IN  IF variableExists THEN replaced
             ELSE SubSeq(replaced, 1, statement - 1) \o <<declaration>>
                     \o SubSeq(replaced, statement, Len(replaced))

\* The fix with a replacement loop that ends at the first recorded
\* occurrence whose object text is not the chain.
FixUntilStale(src, nodes, d, min) ==
    IF Len(nodes) < min THEN src
    ELSE LET name == safeVarName(d.chain)
             first == nodes[1]
             statement == first[1]
             scope == src[statement].scope
             variableExists == name \in ConstNames(src, scope)
             Stale(i) == ObjectText(src[nodes[i][1]].e, nodes[i][2]) # d.chain
             Hit(j) ==
                 {k \in DOMAIN src[j].e.links :
                     \E i \in DOMAIN nodes :
                         nodes[i] = <<j, k>> /\ \A m \in 1..i : ~Stale(m)}
             replaced ==
                 [j \in DOMAIN src |->
                     IF Hit(j) = {} THEN src[j]
                     ELSE LET k == CHOOSE x \in Hit(j) : TRUE
                          IN  [src[j] EXCEPT
                                  !.e = [root |-> name,
                                         links |-> SubSeq(@.links, k, Len(@.links))]]]
             from == src[statement].e
             declaration ==
                 [kind |-> "decl", scope |-> scope, list |-> src[statement].list,
                  name |-> name,
                  e |-> [root |-> from.root,
                         links |-> [i \in 1..(first[2] - 1) |-> Unwrapped(from.links[i])]]]
         IN  IF variableExists THEN replaced
             ELSE SubSeq(replaced, 1, statement - 1) \o <<declaration>>
                     \o SubSeq(replaced, statement, Len(replaced))

\* The file after the edits of the fix of diagnostic d, materialized when
\* nodes holds the occurrences recorded for its key.
Fix(src, nodes, d, min) ==
    IF Len(nodes) < min THEN src
    ELSE LET name == safeVarName(d.chain)
             first == nodes[1]
             statement == first[1]
             scope == src[statement].scope
             variableExists == name \in ConstNames(src, scope)
             Hit(j) ==
                 {k \in DOMAIN src[j].e.links :
                     /\ \E i \in DOMAIN nodes : nodes[i] = <<j, k>>
                     /\ ObjectText(src[j].e, k) = d.chain}
             replaced ==
                 [j \in DOMAIN src |->
                     IF Hit(j) = {} THEN src[j]
                     ELSE LET k == CHOOSE x \in Hit(j) : TRUE
                          IN  [src[j] EXCEPT
                                  !.e = [root |-> name,
                                         links |-> SubSeq(@.links, k, Len(@.links))]]]
             from == src[statement].e
             declaration ==
                 [kind |-> "decl", scope |-> scope, list |-> src[statement].list,
                  name |-> name,
                  e |-> [root |-> from.root,
                         links |-> [i \in 1..(first[2] - 1) |-> Unwrapped(from.links[i])]]]
         IN  IF variableExists THEN replaced
             ELSE SubSeq(replaced, 1, statement - 1) \o <<declaration>>
                     \o SubSeq(replaced, statement, Len(replaced))

\* The expressions of the file:  a.b  a.b.b  a.b.c  a.b!.c  a[0].b
\* this.b.c  this.b!.c  j.b.c
PerfExprs ==
    {[root |-> <<"a">>, links |-> p] :
        p \in {<<Dot("b")>>, <<Dot("b"), Dot("b")>>, <<Dot("b"), Dot("c")>>,
               <<Dot("b"), Bang("c")>>, <<Lit, Dot("b")>>}}
    \cup {[root |-> ThisText, links |-> p] :
             p \in {<<Dot("b"), Dot("c")>>, <<Dot("b"), Bang("c")>>}}
    \cup {[root |-> <<n>>, links |-> <<Dot("b"), Dot("c")>>] : n \in ImportBindings}

\* A statement of the file is a direct child of a statement list (the body
\* of a program or block, the consequent of a switch case): list names it.
\* The statements of a block scope form one list, named like the scope.
\* The file gets one more expression statement.
AddStatement ==
    \E scope \in Scopes, e \in PerfExprs :
        /\ pass = "edit"
        /\ Len(source) < MaxPerfStmts
        /\ source = <<>> => scope = "s1"
        /\ source' = Append(source, [kind |-> "use", scope |-> scope, list |-> scope,
                                     name |-> <<>>, e |-> e])
        /\ UNCHANGED <<occurrences, chainNodesMap, reports, pass, fixed>>
        /\ UNCHANGED <<treeVars, options, minOccurrences, memberAccessVars, concatVars>>

\* The variables the file declares itself: const _a_b = k;
UserNames == {<<"_", "a", "_", "b">>}

\* The file gets one more statement, the declaration of a variable that the
\* scope does not declare yet.
AddDeclaration ==
    \E scope \in Scopes, name \in UserNames :
        /\ pass = "edit"
        /\ Len(source) < MaxPerfStmts
        /\ source = <<>> => scope = "s1"
        /\ name \notin ConstNames(source, scope)
        /\ source' = Append(source, [kind |-> "decl", scope |-> scope, list |-> scope,
                                     name |-> name,
                                     e |-> [root |-> <<"k">>, links |-> <<>>]])
        /\ UNCHANGED <<occurrences, chainNodesMap, reports, pass, fixed>>
        /\ UNCHANGED <<treeVars, options, minOccurrences, memberAccessVars, concatVars>>

\* ESLint runs the rule on the file.
RunOn(next) ==
    LET st == RunRule(source, Len(source), minOccurrences)
    IN  /\ occurrences' = st.occ
        /\ chainNodesMap' = st.nodes
        /\ reports' = st.out
        /\ pass' = next
        /\ UNCHANGED <<source, fixed>>
        /\ UNCHANGED <<treeVars, options, minOccurrences, memberAccessVars, concatVars>>

Lint == pass = "edit" /\ source # <<>> /\ RunOn("linted")

\* The fix of one diagnostic of the last run is applied.  ESLint
\* materializes the fix when the diagnostic is reported or later: the fix
\* sees the occurrences of its key recorded by then.
ApplyFix ==
    \E i \in DOMAIN reports :
        LET d == reports[i]
            key == <<d.scope, d.chain>>
        IN  \E n \in d.count..Len(chainNodesMap[key]) :
                /\ pass \in {"linted", "relinted"}
                /\ source' = Fix(source, SubSeq(chainNodesMap[key], 1, n), d, minOccurrences)
                /\ fixed' = key
                /\ pass' = "fixed"
                /\ UNCHANGED <<occurrences, chainNodesMap, reports>>
                /\ UNCHANGED <<treeVars, options, minOccurrences, memberAccessVars, concatVars>>

\* ESLint runs the rule from scratch on the rewritten file.
Relint == pass = "fixed" /\ RunOn("relinted")

NextPerf == AddStatement \/ AddDeclaration \/ Lint \/ ApplyFix \/ Relint

SpecPerf == Init /\ [][NextPerf]_vars

\* ------------------------------------------------------------------------
\* src/plugins/perf-plugin.ts on the body of a switch statement
\* ------------------------------------------------------------------------
\* Number of statements in the cases of the switch statement
MaxCaseStmts == 3

\* The consequents of its cases: one scope, the switch scope, and a
\* statement list for each case
CaseLists == <<"case1", "case2">>

\* The expressions of the statements:  a.b.b  a.b.c  a.b!.c
CaseExprs ==
    {[root |-> <<"a">>, links |-> p] :
        p \in {<<Dot("b"), Dot("b")>>, <<Dot("b"), Dot("c")>>, <<Dot("b"), Bang("c")>>}}

\* A case of the switch statement gets one more expression statement: the
\* last case that has one, or a later case.
AddCaseStatement ==
    \E n \in DOMAIN CaseLists, e \in CaseExprs :
        /\ pass = "edit"
        /\ Len(source) < MaxCaseStmts
        /\ \A m \in DOMAIN CaseLists :
               (source # <<>> /\ source[Len(source)].list = CaseLists[m]) => m <= n
        /\ source' = Append(source, [kind |-> "use", scope |-> "s1",
                                     list |-> CaseLists[n], name |-> <<>>, e |-> e])
        /\ UNCHANGED <<occurrences, chainNodesMap, reports, pass, fixed>>
        /\ UNCHANGED <<treeVars, options, minOccurrences, memberAccessVars, concatVars>>

NextCases == AddCaseStatement \/ Lint \/ ApplyFix \/ Relint

SpecCases == Init /\ [][NextCases]_vars

\* ------------------------------------------------------------------------
\* src/plugins/rules/noConcatString.ts: no-concat-string
\* ------------------------------------------------------------------------
\* Number of nodes (loops and expressions) of the traversed file
MaxConcatNodes == 6
\* Deepest nesting of loops in the file
MaxLoopNesting == 3

LoopTypes ==
    {"ForStatement", "WhileStatement", "DoWhileStatement", "ForInStatement",
     "ForOfStatement"}

\* The types the checker gives the operands
OperandTypes == {"string", "number", "string | number"}

\* isStringType: the string type, or a union with a string member
isStringType(type) == type \in {"string", "string | number"}

\* The exit listeners with the one of do-while loops missing
LoopExitButDoWhile(type, depth) ==
    IF type = "DoWhileStatement" THEN depth ELSE depth - 1

\* The listener of a loop statement of the given type: loopDepth++
LoopEnter(type, depth) == depth + 1

\* Its exit listener: loopDepth--
LoopExit(type, depth) == depth - 1

\* The BinaryExpression listener on node id: the reports after it
ConcatBinaryExpression(depth, out, id, operator, leftType, rightType, inLoops) ==
    IF depth = 0 THEN out
    ELSE IF operator = "+" /\ (isStringType(leftType) \/ isStringType(rightType))
         THEN Append(out, [node |-> id, inLoops |-> inLoops])
         ELSE out

\* The AssignmentExpression listener on node id: the reports after it
ConcatAssignmentExpression(depth, out, id, operator, leftType, rightType, inLoops) ==
    IF depth = 0 THEN out
    ELSE IF operator = "+="
         THEN LET shouldReport == isStringType(leftType) \/ isStringType(rightType)
              IN  IF shouldReport
                  THEN Append(out, [node |-> id, inLoops |-> inLoops])
                  ELSE out
         ELSE out

\* The traversal enters a loop statement.
EnterLoop ==
    \E type \in LoopTypes :
        /\ visited < MaxConcatNodes
        /\ Len(loopStack) < MaxLoopNesting
        /\ loopDepth' = LoopEnter(type, loopDepth)
        /\ loopStack' = <<type>> \o loopStack
        /\ visited' = visited + 1
        /\ UNCHANGED <<concatReports, loopHist>>
        /\ UNCHANGED <<treeVars, options, minOccurrences, memberAccessVars, perfVars>>

\* The traversal leaves the innermost loop statement.
LeaveLoop ==
    /\ loopStack # <<>>
    /\ loopDepth' = LoopExit(Head(loopStack), loopDepth)
    /\ loopStack' = Tail(loopStack)
    /\ loopHist' = [loopHist EXCEPT !.left = TRUE]
    /\ UNCHANGED <<concatReports, visited>>
    /\ UNCHANGED <<treeVars, options, minOccurrences, memberAccessVars, perfVars>>

\* What the traversal met: outside counts the string concatenations that
\* stand outside every loop, after a loop has ended.
ObserveConcat(h, isConcat) ==
    IF isConcat /\ loopStack = <<>> /\ h.left
    THEN [h EXCEPT !.outside = @ + 1]
    ELSE h

\* The traversal enters a binary expression.
VisitBinary ==
    \E operator \in {"+", "-"}, leftType \in OperandTypes, rightType \in OperandTypes :
        /\ visited < MaxConcatNodes
        /\ concatReports' =
               ConcatBinaryExpression(loopDepth, concatReports, visited + 1,
                                      operator, leftType, rightType, Len(loopStack))
        /\ visited' = visited + 1
        /\ loopHist' =
               ObserveConcat(loopHist,
                   operator = "+" /\ (isStringType(leftType) \/ isStringType(rightType)))
        /\ UNCHANGED <<loopDepth, loopStack>>
        /\ UNCHANGED <<treeVars, options, minOccurrences, memberAccessVars, perfVars>>

\* The traversal enters an assignment expression.
VisitCompoundAssignment ==
    \E operator \in {"+=", "="}, leftType \in OperandTypes, rightType \in OperandTypes :
        /\ visited < MaxConcatNodes
        /\ concatReports' =
               ConcatAssignmentExpression(loopDepth, concatReports, visited + 1,
                                          operator, leftType, rightType, Len(loopStack))
        /\ visited' = visited + 1
        /\ loopHist' =
               ObserveConcat(loopHist,
                   operator = "+=" /\ (isStringType(leftType) \/ isStringType(rightType)))
        /\ UNCHANGED <<loopDepth, loopStack>>
        /\ UNCHANGED <<treeVars, options, minOccurrences, memberAccessVars, perfVars>>

NextConcat == EnterLoop \/ LeaveLoop \/ VisitBinary \/ VisitCompoundAssignment

SpecConcat == Init /\ [][NextConcat]_vars

\* ------------------------------------------------------------------------
\* Properties
\* ------------------------------------------------------------------------
DiagSet == {diags[i] : i \in DOMAIN diags}

DiagsOf(scope) == {d \in DiagSet : d.scope = scope}

\* The diagnostics emitted by the step
NewDiags == {diags'[i] : i \in (Len(diags) + 1)..Len(diags')}

\* All chains of the model's files
Chains ==
    {<<"a", "b">>, <<"a", "b", "b">>, <<"a", "b", "c">>, <<"this", "b">>}

\* C1 (mutation safety): once a chain with a recorded occurrence, or a chain
\* it extends (the root included), is the target of an assignment, of an
\* increment or decrement, or of a member call in a scope, no later
\* diagnostic of that scope names the chain.
C1_MutationSafety ==
    [][\A d \in NewDiags : d.chain \notin hist'.covered[d.scope]]_vars

\* C2 (threshold reached): when the reads of a scope are exactly
\* minOccurrences expressions that spell one chain P, the scope has exactly
\* one diagnostic, and it names P, the longest prefix whose count reached
\* minOccurrences.
C2_ThresholdReached ==
    \A s \in Scopes, P \in Chains :
        (DOMAIN hist.exact[s] = {P} /\ hist.exact[s][P] = minOccurrences)
            => /\ Cardinality({i \in DOMAIN diags : diags[i].scope = s}) = 1
               /\ \A d \in DiagsOf(s) : d.chain = P

\* C3 (below threshold): a diagnostic is emitted only for a chain that the
\* expressions of its scope accessed at least minOccurrences times, and the
\* count it reports is the number of these expressions seen so far.
C3_BelowThreshold ==
    \A d \in DiagSet :
        d.at = stmts =>
            /\ Accesses(hist, d.scope, d.chain) >= minOccurrences
            /\ d.count = Accesses(hist, d.scope, d.chain)

\* C4 (scope isolation): a scope without an occurrence has no record, and a
\* chain that no scope accesses more than once is not reported.
C4_ScopeIsolation ==
    /\ \A s \in Scopes : DOMAIN hist.exact[s] = {} => s \notin DOMAIN scopeDataMap
    /\ \A P \in Chains :
           (\A s \in Scopes : Accesses(hist, s, P) <= 1)
               => \A d \in DiagSet : d.chain # P

\* C5 (per-scope extraction): a chain that at least minOccurrences
\* expressions spell in each of the two scopes has a diagnostic in each of
\* the two scopes.
C5_PerScopeExtraction ==
    \A P \in Chains :
        (\A s \in Scopes :
            P \in DOMAIN hist.exact[s] /\ hist.exact[s][P] >= minOccurrences)
            => \A s \in Scopes : \E d \in DiagsOf(s) : d.chain = P

C8_CallInPath ==
    hist.through =>
        /\ diags = <<>>
        /\ \A s \in DOMAIN scopeDataMap : \A c \in DOMAIN scopeDataMap[s] :
               scopeDataMap[s][c].count = 0

\* C9 (calls on a chain): no chain that extends the receiver R of a call of
\* a scope has a diagnostic in that scope, wherever the call stands.
C9_CallSuppresses ==
    \A s \in Scopes : \A R \in hist.called[s], d \in DiagsOf(s) :
        ~IsStrictPrefix(R, d.chain)

\* C6 (one diagnostic per scope and chain): the diagnostics of one run of
\* the rule have pairwise different (scope, chain) pairs.
C6_OncePerScopeChain ==
    pass = "linted" =>
        \A i, j \in DOMAIN reports :
            (reports[i].scope = reports[j].scope /\ reports[i].chain = reports[j].chain)
                => i = j

\* C10 (idempotence): after the fix of a diagnostic for a chain is applied
\* and the rule is run again from scratch, no diagnostic names that chain in
\* that scope.
C10_Idempotence ==
    pass = "relinted" =>
        \A i \in DOMAIN reports : <<reports[i].scope, reports[i].chain>> # fixed

\* The edits every fix of the last run would make, whenever materialized,
\* leave the file as it is: no further round changes the text.
NoFixLeft ==
    \A i \in DOMAIN reports :
        LET d == reports[i]
            key == <<d.scope, d.chain>>
        IN  \A n \in d.count..Len(chainNodesMap[key]) :
                Fix(source, SubSeq(chainNodesMap[key], 1, n), d, minOccurrences) = source

\* C11 (fixpoint convergence): when the rounds of fixing and linting have
\* come to a file that no offered fix changes any more, the rule emits zero
\* diagnostics on that file.
C11_FixpointConvergence ==
    (pass = "relinted" /\ NoFixLeft) => reports = <<>>

\* The text of the expression of a statement
StatementText(stmt) == getText(stmt.e, Len(stmt.e.links))

C13_ImportExclusion ==
    /\ \A s \in DOMAIN scopeDataMap : \A c \in DOMAIN scopeDataMap[s] :
           c[1] \notin ImportBindings
    /\ \A d \in DiagSet : d.chain[1] \notin ImportBindings

\* C14 (default threshold): when the configuration supplies no options, the
\* threshold is 3: a scope whose reads are exactly two expressions that
\* spell one chain has no diagnostic, and one with three such reads has a
\* diagnostic for the chain.
C14_DefaultThreshold ==
    options = <<>> =>
        \A s \in Scopes, P \in Chains :
            DOMAIN hist.exact[s] = {P} =>
                /\ hist.exact[s][P] = 2 => DiagsOf(s) = {}
                /\ hist.exact[s][P] = 3 => \E d \in DiagsOf(s) : d.chain = P

\* C15 (no-concat-string): the loop depth is the number of loops around the
\* traversal's position, so it is back at its previous value when a loop is
\* left, and every reported concatenation stands inside at least one loop.
C15_ConcatOnlyInLoops ==
    /\ loopDepth = Len(loopStack)
    /\ \A i \in DOMAIN concatReports : concatReports[i].inLoops > 0

\* A concatenation inside a loop was reported, the loops have ended, and a
\* string concatenation after them was met and not reported.
C15_Witness ==
    /\ loopStack = <<>>
    /\ loopHist.outside > 0
    /\ concatReports # <<>>
    /\ concatReports[Len(concatReports)].node < visited

\* The records of a scope in a map of scope data
ChainsOf(map, scope) == IF scope \in DOMAIN map THEN map[scope] ELSE NoChains

CountOf(chains, c) == IF c \in DOMAIN chains THEN chains[c].count ELSE 0

\* The chains of the scope whose count the step changed, and whether the
\* step recorded exactly one occurrence of each of them
Touched(scope) ==
    {c \in DOMAIN ChainsOf(scopeDataMap', scope) :
        CountOf(ChainsOf(scopeDataMap', scope), c) # CountOf(ChainsOf(scopeDataMap, scope), c)}

OneOccurrence(scope) ==
    /\ Touched(scope) # {}
    /\ \A c \in Touched(scope) :
           ChainsOf(scopeDataMap', scope)[c].count
               = CountOf(ChainsOf(scopeDataMap, scope), c) + 1

\* C16 (chain selection): when a step records one occurrence in a scope,
\* and some prefix of its hierarchy has count >= minOccurrences, is
\* unmodified and has no diagnostic in the scope so far, the step emits
\* exactly one diagnostic, for the longest such prefix and anchored at its
\* first recorded occurrence; with no such prefix the step emits none.
C16_ChainSelection ==
    [][\A s \in Scopes :
          OneOccurrence(s) =>
              LET after == ChainsOf(scopeDataMap', s)
                  qualifying ==
                      {c \in Touched(s) :
                          /\ after[c].count >= minOccurrences
                          /\ ~after[c].modified
                          /\ \A d \in DiagsOf(s) : d.chain # c}
              IN  IF qualifying = {} THEN NewDiags = {}
                  ELSE /\ Len(diags') = Len(diags) + 1
                       /\ \A d \in NewDiags :
                              /\ d.scope = s
                              /\ d.chain \in qualifying
                              /\ \A c \in qualifying : Len(c) <= Len(d.chain)
                              /\ d.node = after[d.chain].nodes[1]]_vars

\* The statements that write to a member chain: the kind of statement, its
\* expression and the chain written to (the target of an assignment or an
\* update, the callee of a member call)
Writes ==
    {[kind |-> k, e |-> e, chain |-> SourceChain(e, Len(e.links))] :
        k \in {"assign", "update"}, e \in TargetExprs}
    \cup {[kind |-> "read", e |-> e, chain |-> CHOOSE c \in Callees(e) : TRUE] :
             e \in {x \in Exprs : Callees(x) # {}}}

\* All statements of the model's files
Statements ==
    {[kind |-> "read", e |-> e] : e \in Exprs}
        \cup {[kind |-> k, e |-> e] : k \in {"assign", "update"}, e \in TargetExprs}

\* C17 (extent of invalidation): in every state of the rule, a statement
\* that assigns to or updates a member chain C in a scope leaves the record
\* of C and the records of the chains that extend C modified, and every
\* other record of the scope, those of the proper prefixes of C and of its
\* siblings included, as it was.
C17_InvalidationExtent ==
    \A s \in Scopes, w \in Writes :
        (w.kind # "read" /\ Len(w.chain) >= 2)
            => LET st == AfterStatement(RuleState, w.kind, s, w.e, stmts + 1,
                                        minOccurrences)
                   before == ChainsOf(scopeDataMap, s)
                   after == ChainsOf(st.map, s)
               IN  /\ w.chain \in DOMAIN after /\ after[w.chain].modified
                   /\ \A c \in DOMAIN before :
                          IF IsPrefix(w.chain, c) THEN after[c].modified
                          ELSE after[c] = before[c]

\* C18 (pre-marking): in every state of the rule, a statement that assigns
\* to, updates or calls a member chain without a record in the scope
\* leaves a record of it with count 0, no occurrence and modified = true;
\* and a record with count 0 and modified = true is never changed by a
\* statement, and no diagnostic of the scope names its chain.
C18_PreMarking ==
    /\ \A s \in Scopes, w \in Writes :
           (Len(w.chain) >= 2 /\ w.chain \notin DOMAIN ChainsOf(scopeDataMap, s))
               => LET st == AfterStatement(RuleState, w.kind, s, w.e, stmts + 1,
                                           minOccurrences)
                  IN  /\ w.chain \in DOMAIN ChainsOf(st.map, s)
                      /\ ChainsOf(st.map, s)[w.chain]
                             = [count |-> 0, nodes |-> <<>>, modified |-> TRUE]
    /\ \A s \in DOMAIN scopeDataMap : \A c \in DOMAIN scopeDataMap[s] :
           (scopeDataMap[s][c].count = 0 /\ scopeDataMap[s][c].modified)
               => /\ \A d \in DiagsOf(s) : d.chain # c
                  /\ \A t \in Scopes, x \in Statements :
                         AfterStatement(RuleState, x.kind, t, x.e, stmts + 1,
                                        minOccurrences).map[s][c]
                             = scopeDataMap[s][c]

\* C19 (monotonic flag): a record whose modified flag is true still exists
\* after every statement and still has modified = true.
C19_ModifiedMonotonic ==
    [][\A s \in DOMAIN scopeDataMap : \A c \in DOMAIN scopeDataMap[s] :
          scopeDataMap[s][c].modified
              => /\ c \in DOMAIN ChainsOf(scopeDataMap', s)
                 /\ scopeDataMap'[s][c].modified]_vars

\* A record with occurrences was marked, and statements after the marking
\* accessed its chain: the last one recorded an extension of the chain that
\* no occurrence before the marking had.
C19_Witness ==
    \E s \in DOMAIN scopeDataMap :
           \E c \in DOMAIN scopeDataMap[s], x \in DOMAIN scopeDataMap[s] :
               /\ scopeDataMap[s][c].modified
               /\ scopeDataMap[s][c].count >= 1
               /\ IsStrictPrefix(c, x)
               /\ ~scopeDataMap[s][x].modified
               /\ scopeDataMap[s][x].nodes[1][1] = stmts

\* The member nodes of the model's expressions that analyzeChain accepts,
\* each with its hierarchy
MemberNodes ==
    {[e |-> n[1], k |-> n[2], hierarchy |-> analyzeChain(n[1], n[2])] :
        n \in {x \in Exprs \X (1..3) :
                  /\ x[2] \in DOMAIN x[1].links
                  /\ NodeType(x[1], x[2]) = "MemberExpression"
                  /\ analyzeChain(x[1], x[2]) # <<>>}}

\* One of them for each hierarchy and position: processMemberExpression
\* reads nothing else of the node.
Occurrences ==
    {CHOOSE o \in MemberNodes : o.hierarchy = p[1] /\ o.k = p[2] :
        p \in {<<n.hierarchy, n.k>> : n \in MemberNodes}}

\* C20 (a modified prefix stops accumulating): in every state of the rule,
\* recording an occurrence leaves the record of each prefix of its
\* hierarchy that is modified as it is, and for every other prefix of two
\* or more segments adds one to the count and appends the access node.
C20_ModifiedStops ==
    \A s \in Scopes, o \in Occurrences :
        LET h == o.hierarchy
            node == <<stmts + 1, o.k>>
            st == processMemberExpression(
                      RuleState, s, o.e, o.k, "ExpressionStatement",
                      stmts + 1, minOccurrences)
            before == ChainsOf(scopeDataMap, s)
            after == ChainsOf(st.map, s)
        IN  \A i \in 2..Len(h) :
                IF h[i] \in DOMAIN before /\ before[h[i]].modified
                THEN after[h[i]] = before[h[i]]
                ELSE /\ after[h[i]].count = CountOf(before, h[i]) + 1
                     /\ after[h[i]].nodes
                            = Append(IF h[i] \in DOMAIN before
                                     THEN before[h[i]].nodes ELSE <<>>, node)
                     /\ ~after[h[i]].modified

\* The last statement was an occurrence with a modified prefix, which it
\* left as it was, and a longer prefix that it recorded.
C20_Witness ==
    \E s \in DOMAIN scopeDataMap :
           \E c \in DOMAIN scopeDataMap[s], x \in DOMAIN scopeDataMap[s] :
               /\ scopeDataMap[s][c].modified
               /\ scopeDataMap[s][c].count >= 1
               /\ \A i \in DOMAIN scopeDataMap[s][c].nodes :
                      scopeDataMap[s][c].nodes[i][1] < stmts
               /\ IsStrictPrefix(c, x)
               /\ ~scopeDataMap[s][x].modified
               /\ scopeDataMap[s][x].count = 1
               /\ scopeDataMap[s][x].nodes = <<<<stmts, Len(x) - 1>>>>

\* C21 (no double counting): in every state of the rule, the traversal of
\* one access expression that spells a chain adds exactly one to the count
\* of each prefix of two or more segments of the chain, also when the
\* expression holds a non-null assertion between segments (a.b!.c counts
\* a.b once).
C21_NoDoubleCounting ==
    \A s \in Scopes, e \in ReadExprs :
        LET whole == SourceChain(e, Len(e.links))
            st == AfterStatement(RuleState, "read", s, e, stmts + 1, minOccurrences)
        IN  \A i \in 2..Len(whole) :
                CountOf(ChainsOf(st.map, s), SubSeq(whole, 1, i))
                    = CountOf(ChainsOf(scopeDataMap, s), SubSeq(whole, 1, i)) + 1

\* C22 (suppression of shallower prefixes): once a diagnostic names a chain
\* P in a scope, no diagnostic of that scope emitted at the same or at a
\* later occurrence names a proper prefix of P.
C22_ShallowerSuppressed ==
    \A i \in DOMAIN diags, j \in DOMAIN diags :
        (i < j /\ diags[i].scope = diags[j].scope)
            => ~IsStrictPrefix(diags[j].chain, diags[i].chain)

C24_UniqueBindingName ==
    [][pass' = "fixed"
        => LET P == fixed'[2]
               name == safeVarName(P)
               nodes == chainNodesMap[fixed']
               inserted == Len(source') = Len(source) + 1
               Moved(j) == IF inserted /\ j >= nodes[1][1] THEN j + 1 ELSE j
           IN  \A j \in DOMAIN source :
                   (source'[Moved(j)] # source[j] /\ source'[Moved(j)].e.root = name)
                       => \A i \in DOMAIN source' :
                              (/\ source'[i].kind = "decl"
                               /\ source'[i].scope = fixed'[1]
                               /\ source'[i].name = name)
                                  => StatementText(source'[i]) = P]_vars

\* A chain text that is a bare root: no "." and no "[" in it
IsBareRoot(text) == \A n \in DOMAIN text : text[n] \notin {".", "["}

\* C25 (single-segment chains): no chain that is the bare root only has a
\* counted record or a diagnostic, in neither implementation of the rule:
\* accesses a.b and a.c never lead to a diagnostic for a.
C25_NoSingleSegment ==
    /\ \A s \in DOMAIN scopeDataMap : \A c \in DOMAIN scopeDataMap[s] :
           Len(c) < 2 => scopeDataMap[s][c].count = 0 /\ scopeDataMap[s][c].nodes = <<>>
    /\ \A d \in DiagSet : Len(d.chain) >= 2
    /\ \A key \in DOMAIN occurrences : ~IsBareRoot(key[2])
    /\ \A i \in DOMAIN reports : ~IsBareRoot(reports[i].chain)

\* The nodes of the model's expressions: (e, k) is the node made of the root
\* and the links 1..k
Nodes == {x \in Exprs \X (0..3) : x[2] <= Len(x[1].links)}

\* The member nodes that analyzeChain rejects: a computed segment, a call
\* result or another non-identifier root on the path
Unextractable ==
    {x \in Nodes :
        NodeType(x[1], x[2]) = "MemberExpression" /\ analyzeChain(x[1], x[2]) = <<>>}

\* The targets of assignments and updates that are such nodes, or a plain
\* identifier
SilentTargets ==
    {e \in TargetExprs :
        <<e, Len(e.links)>> \in Unextractable \/ NodeType(e, Len(e.links)) = "Identifier"}

\* The calls whose callee is such a node, or no member node at all
SilentCalls ==
    {x \in Nodes :
        /\ x[2] >= 1
        /\ x[1].links[x[2]].kind = "call"
        /\ ~x[1].links[x[2]].bang
        /\ (<<x[1], x[2] - 1>> \in Unextractable
               \/ NodeType(x[1], x[2] - 1) # "MemberExpression")}

C27_MutationInnermostScope ==
    stmts < MaxStmts => \A t \in Scopes, w \in Writes :
        LET st == AfterStatement(RuleState, w.kind, t, w.e, stmts + 1, minOccurrences)
        IN  \A s \in Scopes \ {t} :
                /\ s \in DOMAIN st.map <=> s \in DOMAIN scopeDataMap
                /\ ChainsOf(st.map, s) = ChainsOf(scopeDataMap, s)

\* The first statement read a.b in scope s1, the second wrote to a.b in
\* scope s2: the record of s2 is marked, the one of s1 is not.
C27_Witness ==
    /\ stmts = 2
    /\ DOMAIN scopeDataMap = Scopes
    /\ scopeDataMap["s1"]
           = (<<"a", "b">> :> [count |-> 1, nodes |-> <<<<1, 1>>>>, modified |-> FALSE])
    /\ <<"a", "b">> \in DOMAIN scopeDataMap["s2"]
    /\ scopeDataMap["s2"][<<"a", "b">>]
           = [count |-> 0, nodes |-> <<>>, modified |-> TRUE]

\* C28 (declaration placement): when a fix inserts its declaration, every
\* statement the fix rewrites stands after the declaration in the file and
\* in the statement list the declaration was inserted in.
C28_DeclarationPlacement ==
    [][(pass' = "fixed" /\ Len(source') = Len(source) + 1)
        => LET at == chainNodesMap[fixed'][1][1]
               Moved(j) == IF j < at THEN j ELSE j + 1
           IN  \A j \in DOMAIN source :
                   source'[Moved(j)] # source[j]
                       => /\ at < Moved(j)
                          /\ source'[Moved(j)].list = source'[at].list]_vars

\* C29 (count and occurrence list): in every state of the rule, the count
\* of every record is the length of its list of nodes; a record with count
\* 0, which only a mutation creates, has no node and modified = true, and
\* no further statement of the file, in any scope, changes it.
C29_CountIsLength ==
    \A s \in DOMAIN scopeDataMap : \A c \in DOMAIN scopeDataMap[s] :
        LET record == scopeDataMap[s][c]
        IN  /\ record.count = Len(record.nodes)
            /\ record.count = 0
                   => /\ record.modified
                      /\ stmts < MaxStmts => \A t \in Scopes, x \in Statements :
                             AfterStatement(RuleState, x.kind, t, x.e, stmts + 1,
                                            minOccurrences).map[s][c] = record

\* A chain was written to before it had a record, and an extension of it
\* was read twice afterwards: the record of the chain has count 0 and no
\* node, the record of the extension count 2 and two nodes.
C29_Witness ==
    \E s \in DOMAIN scopeDataMap :
        \E c \in DOMAIN scopeDataMap[s], x \in DOMAIN scopeDataMap[s] :
            /\ Len(c) >= 2
            /\ scopeDataMap[s][c] = [count |-> 0, nodes |-> <<>>, modified |-> TRUE]
            /\ IsStrictPrefix(c, x)
            /\ ~scopeDataMap[s][x].modified
            /\ scopeDataMap[s][x].count = 2
            /\ Len(scopeDataMap[s][x].nodes) = 2

\* C30 (tree-based rule): after any sequence of insertChain and
\* markChainAsModified, every node whose parent is modified is modified,
\* and findValidChains returns no chain with a modified node on its path
\* from the root.
C30_TreeModifiedInherited ==
    /\ \A p \in DOMAIN chainTree :
           (p # <<>> /\ chainTree[Front(p)].modified) => chainTree[p].modified
    /\ \A c \in findValidChains(chainTree) :
           \A i \in 0..Len(c) : ~chainTree[SubSeq(c, 1, i)].modified

\* A counted node stands under a modified parent, and findValidChains
\* returns a chain elsewhere in the tree.
C30_Witness ==
    /\ \E p \in DOMAIN chainTree :
           /\ Len(p) >= 2
           /\ chainTree[p].count >= 1
           /\ chainTree[p].modified
           /\ chainTree[Front(p)].modified
    /\ findValidChains(chainTree) # {}

====
